---- MODULE Spec2Model ----
(***************************************************************************)
(* Model of the bug-report video analysis pipeline of bharatqa-backend.    *)
(* Three versions of the analyzer module live in the repository:           *)
(*   "part_005"          src/unnamed/part_005  (5-argument cloud analyzer) *)
(*   "ai_analyzer_cloud" src/ai-analyzer-cloud.js (4-argument analyzer)    *)
(*   "part_007"          src/unnamed/part_007  (local-file analyzer)       *)
(* The variable impl says which of them the process has loaded.            *)
(* Strings of the program are modelled as sequences of tokens, error       *)
(* messages as records [msg, code, cause].                                 *)
(* The variable fn holds one application of a function of the analyzer to  *)
(* given arguments (its name, its arguments and, once applied, its value); *)
(* it is idle while the pipeline runs.                                     *)
(***************************************************************************)
EXTENDS Integers, Sequences, FiniteSets, TLC

VARIABLES impl, video, apiKey, posting, dirs, files, bugs, ai_frames, crashed, job,
          fn

vars == <<impl, video, apiKey, posting, dirs, files, bugs, ai_frames, crashed, job, fn>>

(* ------------------------------ bounds --------------------------------- *)
MaxJobs == 2
MaxBugs == 1
MaxDur == 3
MaxRedirects == 1

Jobs == 1..MaxJobs
BugIds == 1..MaxBugs
Durations == 0..MaxDur

Impls == {"part_005", "ai_analyzer_cloud", "part_007"}

(* --------------------------- program constants ------------------------- *)
DELIM == "==== INTERNAL ADMIN VERDICT ===="
NoFreeze == 0 - 1
MaxSend == 50
MinSend == 3
RawFallback == 20

Models(i) ==
  CASE i = "part_005" ->
         <<"gemini-2.0-flash", "gemini-1.5-flash", "gemini-1.5-flash-8b",
           "gemini-1.5-flash-latest">>
    [] i = "ai_analyzer_cloud" ->
         <<"models/gemini-2.5-flash", "models/gemini-2.5-flash-lite",
           "models/gemini-1.5-flash-latest">>
    [] OTHER ->
         <<"models/gemini-2.5-flash", "models/gemini-2.5-flash-lite",
           "models/gemini-1.5-flash-latest", "models/gemini-1.5-flash-8b",
           "models/gemini-pro-vision">>

MinFrameBytes(i) == IF i = "part_007" THEN 1000 ELSE 500

(* ------------------------- environment outcomes ------------------------ *)
StatusCodes == {200, 301, 302, 404}
(* the message of the error a backend raises names that backend *)
BackendErrors(name) == {name}
Texts == { <<>>, <<"report">>, <<"report", " ", DELIM, " ", "verdict">> }
(* similarity percentages on either side of the threshold the variant uses *)
SimValues(i) == IF i = "part_007" THEN {91, 92} ELSE {84, 85}
FrameTypes == {"normal", "black_screen", "nearly_black", "white_screen"}
(* size in bytes of the file one extraction leaves; 0: no file written *)
FrameSizes(i) == {0, MinFrameBytes(i), MinFrameBytes(i) + 1}

NullText == <<"null">>
UndefText == <<"undefined">>

Err(m, c, k) == [msg |-> m, code |-> c, cause |-> k]
NoError == Err("null", 0, "")

Upd(r, u) == [f \in DOMAIN r |-> IF f \in DOMAIN u THEN u[f] ELSE r[f]]

(* ------------------------------ file system ---------------------------- *)
TempDir(b) == [ws |-> b, sub |-> "root"]
FramesSub(b) == [ws |-> b, sub |-> "frames"]
UploadsDir(b) == [ws |-> b, sub |-> "uploads"]
(* part_007 reads the recording from uploads/, the other two download it   *)
(* to tempDir/video.mp4 *)
VideoFile(i, b) ==
  [dir |-> IF i = "part_007" THEN UploadsDir(b) ELSE TempDir(b),
   kind |-> "video", idx |-> 0]
(* extractFrames is handed tempDir itself by part_005 and a frames/        *)
(* subdirectory by the other two *)
OutDir(i, b) == IF i = "part_005" THEN TempDir(b) ELSE FramesSub(b)
FrameFile(i, b, n) == [dir |-> OutDir(i, b), kind |-> "frame", idx |-> n]

(* the directory a job removes when it cleans up *)
Workspace(i, b) == IF i = "part_007" THEN FramesSub(b) ELSE TempDir(b)
InTree(d, root) ==
  d = root \/ (root.sub = "root" /\ d.ws = root.ws /\ d.sub = "frames")
RmTree(S, root) == {f \in S : ~InTree(f.dir, root)}
RmDirs(D, root) == {d \in D : ~InTree(d, root)}

(* ------------------------------ pure helpers --------------------------- *)
Min(a, b) == IF a < b THEN a ELSE b
Max(a, b) == IF a > b THEN a ELSE b

(* getFrameCount without its last line: 60 frames from 300 seconds on *)
getFrameCountSixty(dur) ==
  IF dur < 30 THEN 10
  ELSE IF dur < 60 THEN 15
  ELSE IF dur < 120 THEN 25
  ELSE IF dur < 180 THEN 35
  ELSE IF dur < 300 THEN 45
  ELSE 60

getFrameCount(dur) ==
  IF dur < 30 THEN 10
  ELSE IF dur < 60 THEN 15
  ELSE IF dur < 120 THEN 25
  ELSE IF dur < 180 THEN 35
  ELSE IF dur < 300 THEN 45
  ELSE IF dur < 600 THEN 60
  ELSE 80

(* part_005 calls extractFrames(videoPath, tempDir) without the count *)
UndefinedCount == 0 - 1
NoDur == 0 - 1
(* part_007: duration = 60 when getVideoDuration rejects *)
FallbackDuration == 60
NumFramesArg(i, dur) == IF i = "part_005" THEN UndefinedCount ELSE getFrameCount(dur)

(* Array.from({length: count}): ToLength(undefined) is 0 *)
ArrayLength(count) == IF count = UndefinedCount THEN 0 ELSE count

(* usable window in twentieths of a second, for a whole number of seconds *)
Start20(dur) == Min(20, dur)
End20(dur) == Max(20 * dur - 20, 19 * dur)

(* Math.floor(start + (i / (count - 1)) * range), i counted from 0 *)
Candidate(dur, count, i) ==
  (Start20(dur) * (count - 1) + i * (End20(dur) - Start20(dur)))
     \div (20 * (count - 1))

(* part_007: Math.floor(Math.min(Math.floor(time * 10) / 10, duration - 0.5)) *)
CandidateLocal(dur, count, i) == Min(Candidate(dur, count, i), dur - 1)

RECURSIVE Dedupe(_)
(* [...new Set(seq)]: first occurrences, in order *)
Dedupe(s) ==
  IF s = <<>> THEN <<>>
  ELSE LET front == Dedupe(SubSeq(s, 1, Len(s) - 1))
           x == s[Len(s)]
       IN IF \E k \in 1..Len(front) : front[k] = x THEN front
          ELSE Append(front, x)

Timestamps(i, dur, count) ==
  Dedupe([k \in 1..ArrayLength(count) |->
            IF i = "part_007" THEN CandidateLocal(dur, count, k - 1)
            ELSE Candidate(dur, count, k - 1)])

(* the frames in the order the callbacks pushed them *)
PushOrder(s) == s

RECURSIVE SortByTimestamp(_)
(* frames.sort((a, b) => a.timestamp - b.timestamp); timestamps are distinct *)
SortByTimestamp(s) ==
  IF s = <<>> THEN <<>>
  ELSE LET m == CHOOSE k \in 1..Len(s) :
                  \A l \in 1..Len(s) : s[k].timestamp <= s[l].timestamp
           rest == [l \in 1..(Len(s) - 1) |-> IF l < m THEN s[l] ELSE s[l + 1]]
       IN <<s[m]>> \o SortByTimestamp(rest)

Frame(p, t) == [path |-> p, timestamp |-> t, type |-> "none", frozenDuration |-> NoFreeze]

SetLast(s, f) == [s EXCEPT ![Len(s)] = f]
Last(s) == s[Len(s)]

(* compareFrames: the similarity s of two readable files, 0 when reading    *)
(* either of them throws *)
compareFrames(p1, p2, present, s) == IF p1 \in present /\ p2 \in present THEN s ELSE 0

(* sims gives the similarity of the files of two frames of a list, by      *)
(* their places a < b in the list *)
Pairs(n) == {p \in (1..n) \X (1..n) : p[1] < p[2]}
IndexOf(frames, f) == CHOOSE l \in 1..Len(frames) : frames[l].path = f.path
Similarity(sims, frames, a, b) == sims[<<IndexOf(frames, a), IndexOf(frames, b)>>]
(* a job compares every frame once, with the frame retained last before   *)
(* it: s[b] is the similarity that comparison finds *)
ToRetained(s, n) == [p \in Pairs(n) |-> s[p[2]]]

RECURSIVE filterLoopAgainstFirst(_, _, _, _, _, _)
(* filterLoop comparing every frame with the first retained frame *)
filterLoopAgainstFirst(frames, sims, present, threshold, k, st) ==
  IF k > Len(frames) THEN st
  ELSE IF compareFrames(st.unique[1].path, frames[k].path, present,
                        Similarity(sims, frames, st.unique[1], frames[k])) < threshold
       THEN LET marked ==
                  IF st.streak > 2
                  THEN SetLast(st.unique,
                         [Last(st.unique) EXCEPT !.frozenDuration =
                            frames[k - 1].timestamp - Last(st.unique).timestamp])
                  ELSE st.unique
            IN filterLoopAgainstFirst(frames, sims, present, threshold, k + 1,
                 [unique |-> Append(marked, frames[k]),
                  removed |-> st.removed,
                  freezes |-> IF st.streak > 2 THEN st.freezes + 1 ELSE st.freezes,
                  streak |-> 0])
       ELSE filterLoopAgainstFirst(frames, sims, present, threshold, k + 1,
                 [st EXCEPT !.removed = @ + 1, !.streak = @ + 1])

RECURSIVE filterLoopGapToNext(_, _, _, _, _, _)
(* filterLoop measuring the freeze up to the frame that ends it instead of *)
(* up to the last duplicate *)
filterLoopGapToNext(frames, sims, present, threshold, k, st) ==
  IF k > Len(frames) THEN st
  ELSE IF compareFrames(Last(st.unique).path, frames[k].path, present,
                        Similarity(sims, frames, Last(st.unique), frames[k])) < threshold
       THEN LET marked ==
                  IF st.streak > 2
                  THEN SetLast(st.unique,
                         [Last(st.unique) EXCEPT !.frozenDuration =
                            frames[k].timestamp - Last(st.unique).timestamp])
                  ELSE st.unique
            IN filterLoopGapToNext(frames, sims, present, threshold, k + 1,
                 [unique |-> Append(marked, frames[k]),
                  removed |-> st.removed,
                  freezes |-> IF st.streak > 2 THEN st.freezes + 1 ELSE st.freezes,
                  streak |-> 0])
       ELSE filterLoopGapToNext(frames, sims, present, threshold, k + 1,
                 [st EXCEPT !.removed = @ + 1, !.streak = @ + 1])

RECURSIVE filterLoop(_, _, _, _, _, _)
(* the for loop of filterDuplicates *)
filterLoop(frames, sims, present, threshold, k, st) ==
  IF k > Len(frames) THEN st
  ELSE IF compareFrames(Last(st.unique).path, frames[k].path, present,
                        Similarity(sims, frames, Last(st.unique), frames[k])) < threshold
       THEN LET marked ==
                  IF st.streak > 2
                  THEN SetLast(st.unique,
                         [Last(st.unique) EXCEPT !.frozenDuration =
                            frames[k - 1].timestamp - Last(st.unique).timestamp])
                  ELSE st.unique
            IN filterLoop(frames, sims, present, threshold, k + 1,
                 [unique |-> Append(marked, frames[k]),
                  removed |-> st.removed,
                  freezes |-> IF st.streak > 2 THEN st.freezes + 1 ELSE st.freezes,
                  streak |-> 0])
       ELSE filterLoop(frames, sims, present, threshold, k + 1,
                 [st EXCEPT !.removed = @ + 1, !.streak = @ + 1])

(* filterDuplicates with a loop that starts one frame late *)
filterDuplicatesFromSecond(frames, sims, present) ==
  IF Len(frames) <= 1 THEN [unique |-> frames, removed |-> 0, freezes |-> 0]
  ELSE LET st == filterLoop(frames, sims, present, 85, 3,
                   [unique |-> <<frames[2]>>, removed |-> 0, freezes |-> 0, streak |-> 0])
       IN [unique |-> st.unique, removed |-> st.removed,
           freezes |-> IF st.streak > 2 THEN st.freezes + 1 ELSE st.freezes]

(* part_005 and ai-analyzer-cloud.js *)
filterDuplicates(frames, sims, present) ==
  IF Len(frames) <= 1 THEN [unique |-> frames, removed |-> 0, freezes |-> 0]
  ELSE LET st == filterLoop(frames, sims, present, 85, 2,
                   [unique |-> <<frames[1]>>, removed |-> 0, freezes |-> 0, streak |-> 0])
       IN [unique |-> st.unique, removed |-> st.removed,
           freezes |-> IF st.streak > 2 THEN st.freezes + 1 ELSE st.freezes]

(* unique.filter((_, i) => i % Math.ceil(unique.length / 50) === 0) *)
CeilDiv(a, b) == (a + b - 1) \div b
SelectEvery(s, step) ==
  LET n == CeilDiv(Len(s), step) IN [k \in 1..n |-> s[(k - 1) * step + 1]]
(* the cap with a stride rounded down *)
capFramesFloor(unique) ==
  IF Len(unique) > MaxSend THEN SelectEvery(unique, Len(unique) \div MaxSend)
  ELSE unique

capFrames(unique) ==
  IF Len(unique) > MaxSend THEN SelectEvery(unique, CeilDiv(Len(unique), MaxSend))
  ELSE unique

(* ----------------------- part_007: classify, filter -------------------- *)
IsBlack(f) == f.type = "black_screen" \/ f.type = "nearly_black"
NotBlack(f) == ~IsBlack(f)

(* a filter that lets only the frames of type normal through *)
normalFrames(rawFrames) == SelectSeq(rawFrames, LAMBDA f : f.type = "normal")

(* rawFrames.filter(f => f.type !== 'black_screen' && f.type !== 'nearly_black') *)
nonBlackFrames(rawFrames) == SelectSeq(rawFrames, NotBlack)

Contains(s, f) == \E k \in 1..Len(s) : s[k].path = f.path

RECURSIVE filterLoopLocal(_, _, _, _, _, _)
(* the for loop of filterDuplicateFrames *)
filterLoopLocal(frameFiles, sims, present, threshold, k, st) ==
  IF k > Len(frameFiles) THEN st
  ELSE IF compareFrames(Last(st.uniqueFrames).path, frameFiles[k].path, present,
                        Similarity(sims, frameFiles, Last(st.uniqueFrames), frameFiles[k]))
            < threshold
       THEN LET marked ==
                  IF st.currentStreak > 2
                  THEN SetLast(st.uniqueFrames,
                         [Last(st.uniqueFrames) EXCEPT !.frozenDuration =
                            frameFiles[k - 1].timestamp - st.streakStartTime])
                  ELSE st.uniqueFrames
            IN filterLoopLocal(frameFiles, sims, present, threshold, k + 1,
                 [uniqueFrames |-> Append(marked, frameFiles[k]),
                  duplicatesRemoved |-> st.duplicatesRemoved,
                  frozenStreaks |-> IF st.currentStreak > 2 THEN st.frozenStreaks + 1
                                    ELSE st.frozenStreaks,
                  currentStreak |-> 0,
                  streakStartTime |-> frameFiles[k].timestamp])
       ELSE filterLoopLocal(frameFiles, sims, present, threshold, k + 1,
                 [st EXCEPT !.duplicatesRemoved = @ + 1, !.currentStreak = @ + 1])

(* part_007 filterDuplicateFrames: the loop, the check of the last streak  *)
(* and the "always keep last frame" comparison; the record also carries    *)
(* the counters the function only logs *)
filterDuplicateFramesFull(frameFiles, sims, present, threshold) ==
  IF Len(frameFiles) <= 1
  THEN [uniqueFrames |-> frameFiles, duplicatesRemoved |-> 0, frozenStreaks |-> 0]
  ELSE LET st == filterLoopLocal(frameFiles, sims, present, threshold, 2,
                   [uniqueFrames |-> <<frameFiles[1]>>, duplicatesRemoved |-> 0,
                    frozenStreaks |-> 0, currentStreak |-> 0,
                    streakStartTime |-> frameFiles[1].timestamp])
           open == st.currentStreak > 2
           u1 == IF open
                 THEN SetLast(st.uniqueFrames,
                        [Last(st.uniqueFrames) EXCEPT !.frozenDuration =
                           Last(frameFiles).timestamp - st.streakStartTime])
                 ELSE st.uniqueFrames
           lastFrame == Last(frameFiles)
           u2 == IF lastFrame.path # Last(u1).path
                    /\ compareFrames(Last(u1).path, lastFrame.path, present,
                                     Similarity(sims, frameFiles, Last(u1), lastFrame))
                         < threshold
                 THEN Append(u1, lastFrame)
                 ELSE u1
       IN [uniqueFrames |-> u2, duplicatesRemoved |-> st.duplicatesRemoved,
           frozenStreaks |-> IF open THEN st.frozenStreaks + 1 ELSE st.frozenStreaks]

filterDuplicateFrames(frameFiles, sims, present, threshold) ==
  filterDuplicateFramesFull(frameFiles, sims, present, threshold).uniqueFrames

RECURSIVE frozenLoop(_, _, _, _, _)
(* part_007 analyzeBugReport, "Count frozen streaks for the report" *)
frozenLoop(nonBlack, uniqueFrames, k, streak, frozenScreens) ==
  IF k > Len(nonBlack) THEN frozenScreens
  ELSE IF ~Contains(uniqueFrames, nonBlack[k])
       THEN frozenLoop(nonBlack, uniqueFrames, k + 1, streak + 1, frozenScreens)
       ELSE frozenLoop(nonBlack, uniqueFrames, k + 1, 0,
                       IF streak > 2 THEN frozenScreens + 1 ELSE frozenScreens)

countFrozenScreens(nonBlack, uniqueFrames) == frozenLoop(nonBlack, uniqueFrames, 2, 0, 0)

(* frame objects are shared between rawFrames and uniqueFrames: a          *)
(* frozenDuration set by the filter shows in rawFrames too *)
Shared(rawFrames, uniqueFrames) ==
  [k \in 1..Len(rawFrames) |->
     IF Contains(uniqueFrames, rawFrames[k])
     THEN uniqueFrames[CHOOSE l \in 1..Len(uniqueFrames) :
                         uniqueFrames[l].path = rawFrames[k].path]
     ELSE rawFrames[k]]

(* part_007 steps 5: cap at 50, then "make sure we have at least 3 frames" *)
framesToSend(rawFrames, uniqueFrames) ==
  LET capped == capFrames(uniqueFrames)
  IN IF Len(capped) < MinSend /\ Len(rawFrames) >= MinSend
     THEN SubSeq(Shared(rawFrames, uniqueFrames), 1, Min(Len(rawFrames), RawFallback))
     ELSE capped

(* ------------------------------ report split --------------------------- *)
RECURSIVE TrimLeft(_)
TrimLeft(t) == IF t # <<>> /\ t[1] = " " THEN TrimLeft(Tail(t)) ELSE t
RECURSIVE TrimRight(_)
TrimRight(t) ==
  IF t # <<>> /\ t[Len(t)] = " " THEN TrimRight(SubSeq(t, 1, Len(t) - 1)) ELSE t
Trim(t) == TrimRight(TrimLeft(t))

Includes(t, tok) == \E k \in 1..Len(t) : t[k] = tok

RECURSIVE Split(_, _)
(* String.prototype.split(separator): every segment between separators *)
Split(t, tok) ==
  IF ~Includes(t, tok) THEN <<t>>
  ELSE LET k == CHOOSE n \in 1..Len(t) :
                  t[n] = tok /\ \A m \in 1..(n - 1) : t[m] # tok
       IN <<SubSeq(t, 1, k - 1)>> \o Split(SubSeq(t, k + 1, Len(t)), tok)

(* the report without the split: the whole text *)
publicReportWhole(analysis) == analysis

publicReport(analysis) ==
  IF Includes(analysis, DELIM) THEN Trim(Split(analysis, DELIM)[1]) ELSE analysis
adminContext(analysis) ==
  IF Includes(analysis, DELIM) THEN Trim(Split(analysis, DELIM)[2]) ELSE <<>>

(* ------------------------------ job records ---------------------------- *)
NoResult == [success |-> FALSE, analysis |-> UndefText, model |-> "undefined",
             error |-> Err("undefined", 0, "")]

(* filterIn is the argument of the duplicate filter (`raw` in the cloud     *)
(* analyzers, `nonBlackFrames` in part_007);                               *)
(* dur is the duration the driver has read (ai-analyzer-cloud.js `dur`,    *)
(* part_007 `duration`); valid records the runs of ffmpeg that ended with a file of valid size *)
IdleJob ==
  [pc |-> "idle", bugId |-> 0, redirects |-> 0, body |-> "none", probes |-> 0,
   dur |-> NoDur, count |-> 0, times |-> <<>>, running |-> {}, done |-> 0, valid |-> {},
   frames |-> <<>>,
   raw |-> <<>>, filterIn |-> <<>>, toSend |-> <<>>, removed |-> 0, freezes |-> 0, textOnly |-> FALSE,
   attempts |-> <<>>, analysis |-> NullText, usedModel |-> "null", lastError |-> "",
   i |-> 0, result |-> NoResult, thrown |-> NoError,
   status |-> 0, sampled |-> FALSE, persistFailed |-> FALSE]

NoCall == [op |-> "none"]

(* what no step of a job changes *)
env == <<impl, video, apiKey, posting, fn>>
db == <<bugs, ai_frames>>

Eff(j, u, fs, ds, cr) ==
  /\ job' = [job EXCEPT ![j] = Upd(@, u)]
  /\ files' = fs
  /\ dirs' = ds
  /\ crashed' = cr

(* return value: the promise resolves with res *)
Return(j, u, res, fs, ds) ==
  Eff(j, [pc |-> "returned", result |-> res] @@ u, fs, ds, crashed)

(* an exception leaves analyzeBugReport: the promise is rejected *)
Reject(j, u, err, fs, ds) ==
  Eff(j, [pc |-> "rejected", thrown |-> err] @@ u, fs, ds, crashed)

FailResult(err) ==
  [success |-> FALSE, analysis |-> UndefText, model |-> "undefined", error |-> err]

(* the catch block of analyzeBugReport (part_005, ai-analyzer-cloud.js):   *)
(* remove tempDir, return {success: false, error: err.message}; rmSync     *)
(* itself may throw, and then nothing catches it *)
Catch(j, u, err, fs, ds) ==
  LET root == TempDir(job[j].bugId)
  IN \E rm \in {"ok", "throws"} :
       /\ rm = "throws" => root \in ds
       /\ IF rm = "ok"
          THEN Return(j, u, FailResult(err), RmTree(fs, root), RmDirs(ds, root))
          ELSE Reject(j, u, Err("rmSync failed", 0, ""), fs, ds)

(* the end of the try block: fs.rmSync(tempDir, ...); return res *)
Finish(j, u, res, fs, ds) ==
  LET root == TempDir(job[j].bugId)
  IN \E rm \in {"ok", "throws"} :
       /\ rm = "throws" => root \in ds
       /\ IF rm = "ok"
          THEN Return(j, u, res, RmTree(fs, root), RmDirs(ds, root))
          ELSE Catch(j, u, Err("rmSync failed", 0, ""), fs, ds)

(* --------------------- inference loop (cloud analyzers) ---------------- *)
Truthy(text) == text # NullText /\ text # UndefText /\ text # <<>>

Attempt(name, prompt, images) ==
  [model |-> name, outcome |-> "pending", error |-> "", prompt |-> prompt,
   images |-> images]

(* toSend.filter(f => fs.existsSync(f.path)) *)
Images(toSend, fs) == Cardinality({k \in 1..Len(toSend) : toSend[k].path \in fs})

(* BeginAttempt with a loop that asks the backend it has just tried again  *)
BeginAttemptRetry(j, u, k, fs, ds) ==
  LET jr == Upd(job[j], u)
      a == Attempt(Models(impl)[IF k > 1 THEN k - 1 ELSE k],
                   IF jr.textOnly THEN "text-only" ELSE "multimodal",
                   IF jr.textOnly THEN 0 ELSE Images(jr.toSend, fs))
  IN Eff(j, [pc |-> "inferring", attempts |-> Append(jr.attempts, a)] @@ u, fs, ds, crashed)

(* one pass of the body of `for (const modelName of models)` up to the     *)
(* await of generateContent *)
BeginAttempt(j, u, k, fs, ds) ==
  LET jr == Upd(job[j], u)
      a == Attempt(Models(impl)[k],
                   IF jr.textOnly THEN "text-only" ELSE "multimodal",
                   IF jr.textOnly THEN 0 ELSE Images(jr.toSend, fs))
  IN Eff(j, [pc |-> "inferring", attempts |-> Append(jr.attempts, a)] @@ u, fs, ds, crashed)

AllFailed == Err("All models failed", 0, "")

(* after the loop: if (analysis) { ... db.query(UPDATE bugs ...) } else the *)
(* cleanup and the return *)
AfterLoop(j, u, fs, ds) ==
  LET jr == Upd(job[j], u)
  IN IF Truthy(jr.analysis)
     THEN Eff(j, [pc |-> "persisting"] @@ u, fs, ds, crashed)
     ELSE Finish(j, u, [success |-> FALSE, analysis |-> jr.analysis,
                        model |-> jr.usedModel, error |-> AllFailed], fs, ds)

(* ai-analyzer-cloud.js: for (let i = 0; i < toSend.length; i++) up to the *)
(* await of storage.uploadBuffer; frames whose file is gone are skipped *)
NextUpload(j, u, from, fs, ds) ==
  LET jr == Upd(job[j], u)
      todo == {k \in from..Len(jr.toSend) : jr.toSend[k].path \in fs}
  IN IF todo = {}
     THEN Finish(j, u, [success |-> TRUE, analysis |-> jr.analysis,
                        model |-> jr.usedModel, error |-> NoError], fs, ds)
     ELSE Eff(j, [pc |-> "uploading",
                  i |-> CHOOSE k \in todo : \A l \in todo : k <= l] @@ u,
              fs, ds, crashed)

(* ------------------ part_007: analyzeWithGemini, cleanup --------------- *)
(* Step 7 of part_007: try { fs.rmSync(framesDir, ...) } catch (e) { };    *)
(* return result *)
LocalFinish(j, u, res, fs, ds) ==
  LET root == FramesSub(job[j].bugId)
  IN \E rm \in {"ok", "throws"} :
       /\ rm = "throws" => root \in ds
       /\ IF rm = "ok"
          THEN Return(j, u, res, RmTree(fs, root), RmDirs(ds, root))
          ELSE Return(j, u, res, fs, ds)

(* analyzeWithGemini from the top of the loop body for model k up to the   *)
(* await of generateContent *)
LocalBeginAttempt(j, u, k, fs, ds) ==
  LET jr == Upd(job[j], u)
      n == Images(jr.toSend, fs)
  IN IF n = 0
     THEN LocalFinish(j, u, FailResult(Err("No frames to analyze", 0, "")), fs, ds)
     ELSE Eff(j, [pc |-> "inferring",
                  attempts |-> Append(jr.attempts,
                                 Attempt(Models(impl)[k], "multimodal", n))] @@ u,
              fs, ds, crashed)

analyzeWithGemini(j, u, fs, ds) ==
  IF ~apiKey
  THEN LocalFinish(j, u, FailResult(Err("No Gemini API key configured", 0, "")), fs, ds)
  ELSE LocalBeginAttempt(j, u, 1, fs, ds)

(* ------------------- what follows `await extractFrames` ---------------- *)
CloudAfterExtract(j, u, raw, fs, ds) ==
  IF raw = <<>>
  THEN BeginAttempt(j, [raw |-> raw, sampled |-> TRUE, textOnly |-> TRUE] @@ u,
                    1, fs, ds)
  ELSE \E sims \in [2..Len(raw) -> SimValues(impl)] :
         LET fd == filterDuplicates(raw, ToRetained(sims, Len(raw)), fs)
         IN BeginAttempt(j, [raw |-> raw, sampled |-> TRUE, filterIn |-> raw,
                             toSend |-> capFrames(fd.unique),
                             removed |-> fd.removed, freezes |-> fd.freezes] @@ u,
                         1, fs, ds)

LocalAfterExtract(j, u, rawFrames, fs, ds) ==
  IF rawFrames = <<>>
  THEN Return(j, [raw |-> rawFrames, sampled |-> TRUE] @@ u,
              FailResult(Err("No frames extracted", 0, "")), fs, ds)
  ELSE \E types \in [1..Len(rawFrames) -> FrameTypes],
          sims \in [2..Len(rawFrames) -> SimValues(impl)] :
         LET typed == [k \in 1..Len(rawFrames) |->
                         [rawFrames[k] EXCEPT !.type = types[k]]]
             nonBlack == nonBlackFrames(typed)
             uniqueFrames == filterDuplicateFrames(nonBlack,
                               ToRetained(sims, Len(nonBlack)), fs, 92)
         IN analyzeWithGemini(j,
              [raw |-> Shared(typed, uniqueFrames), sampled |-> TRUE,
               filterIn |-> nonBlack,
               toSend |-> framesToSend(typed, uniqueFrames),
               removed |-> Len(nonBlack) - Len(uniqueFrames),
               freezes |-> countFrozenScreens(nonBlack, uniqueFrames)] @@ u,
              fs, ds)

AfterExtract(j, u, raw, fs, ds) ==
  IF impl = "part_007" THEN LocalAfterExtract(j, u, raw, fs, ds)
  ELSE CloudAfterExtract(j, u, raw, fs, ds)

(* ------------------------------- download ------------------------------ *)
(* downloadFile up to the response: fs.createWriteStream(dest) and         *)
(* client.get(url, ...); a write stream that cannot open its file emits an *)
(* 'error' nobody listens to, which ends the process *)
BeginDownload(j, u, b, fs, ds) ==
  IF TempDir(b) \in ds
  THEN Eff(j, [pc |-> "downloading"] @@ u, fs \cup {VideoFile(impl, b)}, ds, crashed)
  ELSE Eff(j, [pc |-> "crashed"] @@ u, fs, ds, TRUE)

(* extractFrames up to the ffprobe callback: mkdirSync(outDir, recursive)  *)
BeginExtract(j, u, b, count, fs, ds) ==
  Eff(j, [pc |-> "extract_probe", count |-> count,
          probes |-> Upd(job[j], u).probes + 1] @@ u,
      fs,
      ds \cup {OutDir(impl, b)} \cup (IF impl = "part_007" THEN {} ELSE {TempDir(b)}),
      crashed)

(* ffprobe can read the file: it is there and holds the recording *)
Readable(j, fs) ==
  /\ VideoFile(impl, job[j].bugId) \in fs
  /\ impl = "part_007" \/ job[j].body = "video"

ProbeFailed == Err("ffprobe exited with code 1", 0, "")

(* analyzeBugReport(bugId, videoUrl, ...) of part_005 and                  *)
(* ai-analyzer-cloud.js, up to its first await *)
CallEff(j, b) ==
  /\ ~crashed
  /\ impl # "part_007"
  /\ job[j].pc = "idle"
  /\ \E mk \in {"ok", "throws"} :
       /\ mk = "throws" => TempDir(b) \notin dirs
       /\ IF mk = "throws"
          THEN Reject(j, [bugId |-> b], Err("mkdirSync failed", 0, ""), files, dirs)
          ELSE IF impl = "part_005"
               THEN Eff(j, [pc |-> "ctx", bugId |-> b], files,
                        dirs \cup {TempDir(b)}, crashed)
               ELSE BeginDownload(j, [bugId |-> b], b, files, dirs \cup {TempDir(b)})

(* a direct call *)
Call(j, b) == CallEff(j, b) /\ UNCHANGED <<env, db>>

(* part_005: the test-context query has answered (rows or an error, which  *)
(* is caught); downloadFile starts *)
CtxDone(j) ==
  /\ ~crashed
  /\ job[j].pc = "ctx"
  /\ BeginDownload(j, <<>>, job[j].bugId, files, dirs)
  /\ UNCHANGED <<env, db>>

(* the callback of client.get, or its 'error' event (status 0); on 301 and  *)
(* 302 downloadFile calls itself for the new location and keeps no count   *)
(* of the hops: redirects counts them modulo MaxRedirects + 1 *)
DownloadResponse(j) ==
  LET b == job[j].bugId
      dest == VideoFile(impl, b)
  IN /\ ~crashed
     /\ job[j].pc = "downloading"
     /\ \E status \in StatusCodes \cup {0} :
          CASE status = 0 ->
                 Catch(j, <<>>, Err("socket hang up", 0, ""), files \ {dest}, dirs)
            [] status \in {301, 302} ->
                 IF dest \notin files
                 THEN Eff(j, [pc |-> "crashed"], files, dirs, TRUE)
                 ELSE BeginDownload(j, [redirects |-> (job[j].redirects + 1)
                                                       % (MaxRedirects + 1)],
                                    b, files \ {dest}, dirs)
            [] status = 200 ->
                 Eff(j, [pc |-> "piping", body |-> "video", status |-> status],
                     files, dirs, crashed)
            [] OTHER ->
                 IF impl = "part_005"
                 THEN Catch(j, [status |-> status],
                            Err("HTTP downloading video", status, ""),
                            files \ {dest}, dirs)
                 ELSE Eff(j, [pc |-> "piping", body |-> "error page",
                              status |-> status], files, dirs, crashed)
     /\ UNCHANGED <<env, db>>

(* file.on('finish'): downloadFile resolves and analyzeBugReport goes on   *)
(* to its next await *)
DownloadFinish(j) ==
  LET b == job[j].bugId
  IN /\ ~crashed
     /\ job[j].pc = "piping"
     /\ IF impl = "part_005"
        THEN BeginExtract(j, <<>>, b, UndefinedCount, files, dirs)
        ELSE IF VideoFile(impl, b) \notin files
             THEN Catch(j, <<>>, Err("ENOENT: no such file or directory, stat", 0, ""),
                        files, dirs)
             ELSE Eff(j, [pc |-> "probing", probes |-> job[j].probes + 1], files, dirs,
                      crashed)
     /\ UNCHANGED <<env, db>>

(* ------------------------------ probe, sample -------------------------- *)
(* part_007 analyzeBugReport(videoPath, ...) up to its first await *)
LocalCall(j, b) ==
  /\ ~crashed
  /\ impl = "part_007"
  /\ job[j].pc = "idle"
  /\ IF VideoFile(impl, b) \notin files
     THEN Return(j, [bugId |-> b], FailResult(Err("Video file not found: ", 0, "")),
                 files, dirs)
     ELSE Eff(j, [pc |-> "probing", bugId |-> b, probes |-> 1], files, dirs, crashed)
  /\ UNCHANGED <<env, db>>

(* the ffprobe callback of getDuration / getVideoDuration *)
ProbeDone(j) ==
  LET b == job[j].bugId
  IN /\ ~crashed
     /\ job[j].pc = "probing"
     /\ \E ok \in BOOLEAN :
          /\ ok => Readable(j, files)
          /\ IF ok
             THEN BeginExtract(j, [dur |-> video[b]], b, NumFramesArg(impl, video[b]),
                               files, dirs)
             ELSE IF impl = "part_007"
                  THEN BeginExtract(j, [dur |-> FallbackDuration], b,
                                    NumFramesArg(impl, FallbackDuration), files, dirs)
                  ELSE Catch(j, <<>>, ProbeFailed, files, dirs)
     /\ UNCHANGED <<env, db>>

(* extractFrames rejects: the catch block of the cloud analyzers, the      *)
(* try/catch around extractFrames in part_007 *)
ExtractRejected(j, err) ==
  IF impl = "part_007"
  THEN Return(j, <<>>, FailResult(Err("Frame extraction failed: ", 0, err.msg)),
              files, dirs)
  ELSE Catch(j, <<>>, err, files, dirs)

(* the ffprobe callback inside extractFrames *)
ExtractProbeDone(j) ==
  LET b == job[j].bugId
      dur == video[b]
      times == Timestamps(impl, dur, job[j].count)
  IN /\ ~crashed
     /\ job[j].pc = "extract_probe"
     /\ \E ok \in BOOLEAN :
          /\ ok => Readable(j, files)
          /\ IF ~ok THEN ExtractRejected(j, ProbeFailed)
             ELSE IF impl = "part_007" /\ dur < 1
                  THEN ExtractRejected(j, Err("Video too short", 0, ""))
             ELSE IF dur = 0
                  THEN ExtractRejected(j, Err("No duration", 0, ""))
             ELSE IF times = <<>>
                  THEN IF impl = "part_007"
                       THEN ExtractRejected(j, Err("No timestamps generated", 0, ""))
                       ELSE AfterExtract(j, <<>>, <<>>, files, dirs)
             ELSE Eff(j, [pc |-> "extracting", times |-> times,
                          running |-> 1..Len(times), done |-> 0, frames |-> <<>>],
                      files, dirs, crashed)
     /\ UNCHANGED <<env, db>>

(* the 'end' or 'error' callback of the ffmpeg run for times[n]; bytes is  *)
(* the size of the file the run left, 0 for no file, and on 'error' no     *)
(* frame is pushed *)
FrameCallback(j, n) ==
  LET b == job[j].bugId
      out == FrameFile(impl, b, n)
  IN /\ ~crashed
     /\ job[j].pc = "extracting"
     /\ n \in job[j].running
     /\ \E event \in {"end", "error"}, bytes \in FrameSizes(impl) :
          /\ event = "error" => bytes = 0
          /\ bytes > 0 => OutDir(impl, b) \in dirs
          /\ LET fs == IF bytes > 0 THEN files \cup {out} ELSE files
                 frames == IF event = "end" /\ out \in fs /\ bytes > MinFrameBytes(impl)
                           THEN Append(job[j].frames, Frame(out, job[j].times[n]))
                           ELSE job[j].frames
                 u == [running |-> job[j].running \ {n}, done |-> job[j].done + 1,
                       valid |-> IF frames = job[j].frames THEN job[j].valid
                                 ELSE job[j].valid \cup {n},
                       frames |-> frames]
             IN IF job[j].done + 1 = Len(job[j].times)
                THEN AfterExtract(j, [frames |-> SortByTimestamp(frames)] @@ u,
                                  SortByTimestamp(frames), fs, dirs)
                ELSE Eff(j, u, fs, dirs, crashed)
     /\ UNCHANGED <<env, db>>

(* ------------------------------- inference ----------------------------- *)
SetOutcome(attempts, outcome, e) ==
  SetLast(attempts, [Last(attempts) EXCEPT !.outcome = outcome, !.error = e])

(* generateContent of the current attempt settles: it throws the error e,  *)
(* or result.response.text() gives t *)
InferDone(j) ==
  LET k == Len(job[j].attempts)
      name == Models(impl)[k]
      more == k < Len(Models(impl))
  IN /\ ~crashed
     /\ job[j].pc = "inferring"
     /\ \/ \E e \in BackendErrors(name) :
            LET u == [attempts |-> SetOutcome(job[j].attempts, "error", e),
                      lastError |-> e]
            IN IF impl = "part_007"
               THEN IF more THEN LocalBeginAttempt(j, u, k + 1, files, dirs)
                    ELSE LocalFinish(j, u,
                           FailResult(Err("All models failed: ", 0, e)), files, dirs)
               ELSE IF more THEN BeginAttempt(j, u, k + 1, files, dirs)
                    ELSE AfterLoop(j, u, files, dirs)
        \/ \E t \in Texts :
            LET u == [attempts |-> SetOutcome(job[j].attempts,
                                    IF t = <<>> THEN "empty" ELSE "text", ""),
                      analysis |-> t, usedModel |-> name]
            IN IF impl = "part_007"
               THEN LocalFinish(j, u, [success |-> TRUE, analysis |-> t,
                                       model |-> name, error |-> Err("undefined", 0, "")],
                                files, dirs)
               ELSE AfterLoop(j, u, files, dirs)
     /\ UNCHANGED <<env, db>>

(* ------------------------------ persistence ---------------------------- *)
DbFailed == Err("Connection terminated unexpectedly", 0, "")
UploadFailed == Err("Upload failed", 0, "")

(* UPDATE bugs SET ai_analysis=..., ai_model=... WHERE id=bugId *)
UpdateBug(rows, b, jr) ==
  IF ~rows[b].exists THEN rows
  ELSE [rows EXCEPT ![b] =
          IF impl = "part_005"
          THEN [@ EXCEPT !.ai_analysis = publicReport(jr.analysis),
                         !.ai_admin_context = adminContext(jr.analysis),
                         !.ai_model = <<jr.usedModel>>]
          ELSE [@ EXCEPT !.ai_analysis = jr.analysis,
                         !.ai_model = IF jr.textOnly
                                      THEN <<jr.usedModel, " (text-only)">>
                                      ELSE <<jr.usedModel>>]]

(* the UPDATE of the bug record settles *)
PersistDone(j) ==
  LET jr == job[j]
      b == jr.bugId
  IN /\ ~crashed
     /\ jr.pc = "persisting"
     /\ \E ok \in BOOLEAN :
          IF ~ok
          THEN Catch(j, [persistFailed |-> TRUE], DbFailed, files, dirs) /\ UNCHANGED db
          ELSE /\ bugs' = UpdateBug(bugs, b, jr)
               /\ UNCHANGED ai_frames
               /\ IF impl = "ai_analyzer_cloud" /\ ~jr.textOnly
                  THEN NextUpload(j, <<>>, 1, files, dirs)
                  ELSE Finish(j, <<>>, [success |-> TRUE, analysis |-> jr.analysis,
                                        model |-> jr.usedModel, error |-> NoError],
                              files, dirs)
     /\ UNCHANGED env

(* ai-analyzer-cloud.js: storage.uploadBuffer settles; the INSERT starts   *)
UploadDone(j) ==
  /\ ~crashed
  /\ job[j].pc = "uploading"
  /\ \E ok \in BOOLEAN :
       IF ok THEN Eff(j, [pc |-> "inserting"], files, dirs, crashed)
       ELSE Catch(j, [persistFailed |-> TRUE], UploadFailed, files, dirs)
  /\ UNCHANGED <<env, db>>

FrameRow(b, n, f) ==
  [bug_id |-> b, frame_number |-> n, timestamp_seconds |-> f.timestamp,
   frame_type |-> IF f.type = "none" THEN "normal" ELSE f.type,
   frozen_duration |-> IF f.frozenDuration = NoFreeze \/ f.frozenDuration = 0
                       THEN NoFreeze ELSE f.frozenDuration]

(* ai-analyzer-cloud.js: INSERT INTO ai_frames settles; the loop goes on   *)
InsertDone(j) ==
  LET jr == job[j]
  IN /\ ~crashed
     /\ jr.pc = "inserting"
     /\ \E ok \in BOOLEAN :
          IF ~ok
          THEN Catch(j, [persistFailed |-> TRUE], DbFailed, files, dirs) /\ UNCHANGED db
          ELSE /\ ai_frames' = Append(ai_frames, FrameRow(jr.bugId, jr.i, jr.toSend[jr.i]))
               /\ UNCHANGED bugs
               /\ NextUpload(j, <<>>, jr.i + 1, files, dirs)
     /\ UNCHANGED env

(* ------------------------------ specification -------------------------- *)
NoRow == [exists |-> FALSE, recording_url |-> FALSE, ai_analysis |-> NullText,
          ai_admin_context |-> NullText, ai_model |-> <<>>]
NewRow == [NoRow EXCEPT !.exists = TRUE, !.recording_url = TRUE]

(* one call of analyzeBugReport for a bug that has a recording; the call   *)
(* reads the recording of its own bug only, so the recordings are taken    *)
(* equally long and, for part_007, all uploaded or none *)
Init ==
  /\ impl \in Impls
  /\ \E d \in Durations : video = [b \in BugIds |-> d]
  /\ apiKey \in (IF impl = "part_007" THEN BOOLEAN ELSE {TRUE})
  /\ posting = {}
  /\ dirs = IF impl = "part_007" THEN {UploadsDir(b) : b \in BugIds} ELSE {}
  /\ files \in (IF impl = "part_007"
                THEN {{}, {VideoFile(impl, b) : b \in BugIds}}
                ELSE {{}})
  /\ bugs = [b \in BugIds |-> NewRow]
  /\ ai_frames = <<>>
  /\ crashed = FALSE
  /\ job = [j \in Jobs |-> IdleJob]
  /\ fn = NoCall

Step(j) ==
  \/ CtxDone(j)
  \/ DownloadResponse(j)
  \/ DownloadFinish(j)
  \/ ProbeDone(j)
  \/ ExtractProbeDone(j)
  \/ \E n \in 1..getFrameCount(MaxDur) : FrameCallback(j, n)
  \/ InferDone(j)
  \/ PersistDone(j)
  \/ UploadDone(j)
  \/ InsertDone(j)

Next ==
  \/ \E b \in BugIds : Call(1, b)
  \/ \E b \in BugIds : LocalCall(1, b)
  \/ \E j \in Jobs : Step(j)

Spec == Init /\ [][Next]_vars

(* ------------------- the API layer starting jobs (server.js) ----------- *)
DurationsConc == {0, 1}

(* the lowest free job slot *)
FreeSlot(j) == job[j].pc = "idle" /\ \A k \in 1..(j - 1) : job[k].pc # "idle"

(* POST /api/bugs up to the end of its database work: the bug row is       *)
(* inserted with its recording_url and no analysis *)
PostBug(b) ==
  /\ ~crashed
  /\ ~bugs[b].exists
  /\ bugs' = [bugs EXCEPT ![b] = NewRow]
  /\ posting' = posting \cup {b}
  /\ UNCHANGED <<impl, video, apiKey, dirs, files, ai_frames, crashed, job, fn>>

(* POST /api/bugs, "Auto AI analysis (fire-and-forget AFTER response)" *)
AutoAnalyze(j, b) ==
  /\ b \in posting
  /\ posting' = posting \ {b}
  /\ IF bugs[b].recording_url /\ apiKey
     THEN FreeSlot(j) /\ CallEff(j, b)
     ELSE j = 1 /\ ~crashed /\ UNCHANGED <<dirs, files, crashed, job>>
  /\ UNCHANGED <<impl, video, apiKey, fn, db>>

(* POST /api/bugs/:id/analyze from the answer of its SELECT on: a bug with *)
(* a recording and no stored analysis gets a job *)
PostAnalyze(j, b) ==
  /\ apiKey
  /\ bugs[b].exists
  /\ bugs[b].recording_url
  /\ ~Truthy(bugs[b].ai_analysis)
  /\ FreeSlot(j)
  /\ CallEff(j, b)
  /\ UNCHANGED <<env, db>>

InitConc ==
  /\ impl \in {"part_005", "ai_analyzer_cloud"}
  /\ video \in [BugIds -> DurationsConc]
  /\ apiKey \in BOOLEAN
  /\ posting = {}
  /\ dirs = {}
  /\ files = {}
  /\ bugs = [b \in BugIds |-> NoRow]
  /\ ai_frames = <<>>
  /\ crashed = FALSE
  /\ job = [j \in Jobs |-> IdleJob]
  /\ fn = NoCall

NextConc ==
  \/ \E b \in BugIds : PostBug(b)
  \/ \E j \in Jobs, b \in BugIds : AutoAnalyze(j, b)
  \/ \E j \in Jobs, b \in BugIds : PostAnalyze(j, b)
  \/ \E j \in Jobs : Step(j)

SpecConc == InitConc /\ [][NextConc]_vars

(* one call as in Spec, with the event loop running the callback of every  *)
(* awaited call once that call has settled: each pending external call of  *)
(* a job eventually responds or errors *)
SpecLive == Init /\ [][Next]_vars /\ \A j \in Jobs : WF_vars(Step(j))

(* ------------------- single calls of the pure functions ---------------- *)
(* bounds of the arguments *)
MaxStamp == 5
MaxUnique == 101
MaxDropped == 20
MaxTextLen == 5
MaxSeconds == 601

RECURSIVE Ascending(_)
(* the members of a set of seconds as an ascending sequence *)
Ascending(S) ==
  IF S = {} THEN <<>>
  ELSE LET m == CHOOSE x \in S : \A y \in S : x <= y
       IN <<m>> \o Ascending(S \ {m})

(* the frames extractFrames resolves with for the timestamps S *)
FramesAt(S) ==
  LET t == Ascending(S)
  IN [k \in 1..Len(t) |-> Frame(FrameFile(impl, 1, k), t[k])]
(* n frames at the seconds 0..n-1 *)
FrameRun(n) == [k \in 1..n |-> Frame(FrameFile(impl, 1, k), k - 1)]
Paths(frames) == {frames[k].path : k \in 1..Len(frames)}

TextTokens == {" ", "x", DELIM}
TextsUpTo(n) == UNION {[1..m -> TextTokens] : m \in 0..n}

(* the pictures the frames of a call show: two frames with the same        *)
(* picture are as similar as the threshold asks, two frames with different *)
(* pictures fall just short of it *)
Pictures == {"a", "b"}
Threshold(i) == IF i = "part_007" THEN 92 ELSE 85
SimsOf(pics) ==
  [p \in Pairs(Len(pics)) |->
     IF pics[p[1]] = pics[p[2]] THEN Threshold(impl) ELSE Threshold(impl) - 1]
(* at most one frame file of a call cannot be read *)
LostOf(n) == {{}} \cup {{k} : k \in 1..n}

FilterCalls ==
  UNION {{[op |-> "filter", applied |-> FALSE, frames |-> FramesAt(S),
           sims |-> SimsOf(pics), lost |-> lost] :
            pics \in [1..Cardinality(S) -> Pictures], lost \in LostOf(Cardinality(S))} :
         S \in SUBSET (0..MaxStamp)}
CapCalls ==
  {[op |-> "cap", applied |-> FALSE, raw |-> FrameRun(n + e), unique |-> FrameRun(n)] :
     n \in 0..MaxUnique, e \in 0..MaxDropped}
SplitCalls ==
  {[op |-> "split", applied |-> FALSE, analysis |-> t] : t \in TextsUpTo(MaxTextLen)}
BudgetCalls ==
  {[op |-> "budget", applied |-> FALSE, dur |-> d] : d \in 0..MaxSeconds}

(* await filterDuplicates(raw) / await filterDuplicateFrames(nonBlackFrames, 92); *)
(* reported is the freeze figure of the prompt: `freezes` in the cloud     *)
(* analyzers, the recount `frozenScreens` in part_007 *)
ApplyFilter ==
  /\ fn.op = "filter"
  /\ ~fn.applied
  /\ fn' = [op |-> "filter", applied |-> TRUE, frames |-> fn.frames, sims |-> fn.sims,
            lost |-> fn.lost,
            out |-> LET present == {fn.frames[k].path : k \in DOMAIN fn.frames \ fn.lost}
                    IN IF impl = "part_007"
                       THEN LET r == filterDuplicateFramesFull(fn.frames, fn.sims,
                                                               present, 92)
                            IN [unique |-> r.uniqueFrames,
                                removed |-> r.duplicatesRemoved,
                                freezes |-> r.frozenStreaks,
                                reported |-> countFrozenScreens(fn.frames,
                                                                r.uniqueFrames)]
                       ELSE LET r == filterDuplicates(fn.frames, fn.sims, present)
                            IN [unique |-> r.unique, removed |-> r.removed,
                                freezes |-> r.freezes, reported |-> r.freezes]]
  /\ UNCHANGED <<impl, video, apiKey, posting, dirs, files, db, crashed, job>>

(* the cap at 50 frames and, in part_007, the guard that follows it *)
ApplyCap ==
  /\ fn.op = "cap"
  /\ ~fn.applied
  /\ fn' = [op |-> "cap", applied |-> TRUE, raw |-> fn.raw, unique |-> fn.unique,
            out |-> [capped |-> capFrames(fn.unique),
                     toSend |-> IF impl = "part_007"
                                THEN framesToSend(fn.raw, fn.unique)
                                ELSE capFrames(fn.unique)]]
  /\ UNCHANGED <<impl, video, apiKey, posting, dirs, files, db, crashed, job>>

(* GET /api/tests/:id/bugs: the columns of the bug record the company     *)
(* view selects *)
ListedColumns == {"recording_url", "ai_analysis", "ai_model"}
CompanyView(row) == [c \in ListedColumns |-> row[c]]

(* part_005: the split of the analysis into the two values of the UPDATE,  *)
(* the record the UPDATE leaves and what the company view shows of it *)
ApplySplit ==
  /\ fn.op = "split"
  /\ ~fn.applied
  /\ LET row == UpdateBug([b \in BugIds |-> NewRow], 1,
                          [analysis |-> fn.analysis, usedModel |-> Models(impl)[1],
                           textOnly |-> TRUE])[1]
     IN fn' = [op |-> "split", applied |-> TRUE, analysis |-> fn.analysis,
               out |-> [publicReport |-> publicReport(fn.analysis),
                        adminContext |-> adminContext(fn.analysis),
                        row |-> row, listed |-> CompanyView(row)]]
  /\ UNCHANGED <<impl, video, apiKey, posting, dirs, files, db, crashed, job>>

(* const numFrames = getFrameCount(dur) *)
ApplyBudget ==
  /\ fn.op = "budget"
  /\ ~fn.applied
  /\ fn' = [op |-> "budget", applied |-> TRUE, dur |-> fn.dur,
            out |-> getFrameCount(fn.dur)]
  /\ UNCHANGED <<impl, video, apiKey, posting, dirs, files, db, crashed, job>>

InitFn ==
  /\ impl \in Impls
  /\ video = [b \in BugIds |-> 0]
  /\ apiKey = TRUE
  /\ posting = {}
  /\ dirs = {}
  /\ files = {}
  /\ bugs = [b \in BugIds |-> NoRow]
  /\ ai_frames = <<>>
  /\ crashed = FALSE
  /\ job = [j \in Jobs |-> IdleJob]
  /\ fn \in FilterCalls \cup CapCalls \cup BudgetCalls
            \cup (IF impl = "part_005" THEN SplitCalls ELSE {})

NextFn ==
  \/ ApplyFilter
  \/ ApplyCap
  \/ ApplySplit
  \/ ApplyBudget

SpecFn == InitFn /\ [][NextFn]_vars

(* ================================ claims =============================== *)
Done(j) == job[j].pc = "returned"
Running(j) == job[j].pc \notin {"idle", "returned", "rejected", "crashed"}
WorkspaceFiles(j) ==
  {f \in files : InTree(f.dir, Workspace(impl, job[j].bugId))}
GotText(j) ==
  \E k \in 1..Len(job[j].attempts) : job[j].attempts[k].outcome = "text"
AllRaised(j) ==
  /\ Len(job[j].attempts) = Len(Models(impl))
  /\ \A k \in 1..Len(job[j].attempts) : job[j].attempts[k].outcome = "error"
ZeroFrames(j) == job[j].sampled /\ job[j].raw = <<>>
FrameRowsOf(b) == {k \in 1..Len(ai_frames) : ai_frames[k].bug_id = b}

(* C1: in the state in which a run of analyzeBugReport has returned, no    *)
(* file of that job's temporary workspace exists, whichever way it ended.  *)
C1_WorkspaceRemovedOnReturn ==
  \A j \in Jobs : Done(j) => WorkspaceFiles(j) = {}

(* C2: the returned result has success = true if and only if some          *)
(* attempted backend returned non-empty text.                              *)
C2_SuccessIffText ==
  \A j \in Jobs : Done(j) => (job[j].result.success <=> GotText(j))

(* C3: the loop over backends ends at the first attempt that returns       *)
(* non-empty text, whose backend and text become the result; an attempt    *)
(* that returns empty text or raises does not end the loop while backends  *)
(* remain.                                                                 *)
C3_LoopEndsAtFirstText ==
  \A j \in Jobs :
    LET a == job[j].attempts
    IN \A k \in 1..Len(a) :
         /\ a[k].outcome = "text" =>
               /\ k = Len(a)
               /\ job[j].usedModel = a[k].model
               /\ Truthy(job[j].analysis)
               /\ Done(j) /\ job[j].result.success =>
                     /\ job[j].result.model = a[k].model
                     /\ job[j].result.analysis = job[j].analysis
         /\ a[k].outcome \in {"empty", "error"} /\ k < Len(Models(impl)) =>
               k < Len(a)

(* C4: within one job the backends are attempted in priority-list order,   *)
(* one at a time, each at most once, the next one only after the previous  *)
(* attempt has finished with a failure, and none after a success.          *)
C4_SequentialAttempts ==
  \A j \in Jobs :
    LET a == job[j].attempts
    IN /\ Len(a) <= Len(Models(impl))
       /\ \A k \in 1..Len(a) : a[k].model = Models(impl)[k]
       /\ \A k \in 1..(Len(a) - 1) : a[k].outcome = "error"
       /\ \A k, l \in 1..Len(a) : k # l => a[k].model # a[l].model

(* a job that returned after two failed attempts and a third that gave text *)
C4_Witness ==
  \E j \in Jobs :
    /\ Done(j)
    /\ Len(job[j].attempts) = 3
    /\ job[j].attempts[2].outcome = "error"
    /\ job[j].attempts[3].outcome = "text"

(* C5: when every backend of the priority list raises, the job returns     *)
(* success = false, no backend identifier, and an error message containing *)
(* the failure text of the last backend attempted.                         *)
C5_ExhaustedCarriesLastError ==
  \A j \in Jobs :
    Done(j) /\ AllRaised(j) =>
      /\ ~job[j].result.success
      /\ job[j].result.model \in {"null", "undefined"}
      /\ \/ job[j].result.error.msg = Last(job[j].attempts).error
         \/ job[j].result.error.cause = Last(job[j].attempts).error

(* C6: when extraction yields zero valid frames the job does not fail: it  *)
(* runs inference with the text-only prompt and no images, skips capping   *)
(* and frame persistence, and returns success = true if a backend gave     *)
(* text.                                                                   *)
C6_ZeroFramesTextOnly ==
  \A j \in Jobs :
    ZeroFrames(j) =>
      /\ job[j].attempts # <<>>
      /\ \A k \in 1..Len(job[j].attempts) :
            job[j].attempts[k].prompt = "text-only" /\ job[j].attempts[k].images = 0
      /\ job[j].toSend = <<>>
      /\ job[j].pc \notin {"uploading", "inserting"}
      /\ FrameRowsOf(job[j].bugId) = {}
      /\ Done(j) /\ GotText(j) => job[j].result.success

(* C7: if a backend returned non-empty text and a later persistence step   *)
(* fails, the job still returns success = true with the analysis.          *)
C7_PersistenceFailureKeepsSuccess ==
  \A j \in Jobs :
    Done(j) /\ GotText(j) /\ job[j].persistFailed =>
      job[j].result.success /\ job[j].result.analysis = job[j].analysis

(* C8: analyzeBugReport never lets an exception or a rejected promise      *)
(* reach its caller; every failure becomes a result with success = false   *)
(* and the error set.                                                      *)
C8_NothingEscapes ==
  \A j \in Jobs :
    /\ job[j].pc \notin {"rejected", "crashed"}
    /\ Done(j) /\ ~job[j].result.success => job[j].result.error # NoError

(* C9: concurrently running jobs, two jobs for the same bug id included,   *)
(* each have a temporary workspace of their own.                           *)
C9_OwnWorkspace ==
  \A j, k \in Jobs :
    j # k /\ Running(j) /\ Running(k) =>
      Workspace(impl, job[j].bugId) # Workspace(impl, job[k].bugId)

(* C10: when the download answers with a status other than 200 (and other *)
(* than a followed 301/302), the job ends with success = false and an      *)
(* error naming the status code, runs no probe, extraction or inference,   *)
(* and leaves no video or frame file behind.                               *)
C10_Non200Fails ==
  \A j \in Jobs :
    job[j].status \notin {0, 200} =>
      /\ Done(j)
      /\ ~job[j].result.success
      /\ job[j].result.error.code = job[j].status
      /\ job[j].probes = 0
      /\ job[j].times = <<>>
      /\ job[j].attempts = <<>>
      /\ WorkspaceFiles(j) = {}

C12_BoundedExtractionPool ==
  \A j \in Jobs :
    Len(job[j].times) > 1 => Cardinality(job[j].running) < Len(job[j].times)

(* C13: in every job whose recording has a readable duration d the driver   *)
(* hands the Sampler the frame budget f(d) and the Sampler attempts exactly *)
(* the distinct whole-second floors of f(d) evenly spaced candidates over   *)
(* the usable window: at least one timestamp is attempted, and a frame      *)
(* survives when an extraction gave one.                                    *)
C13_BudgetHandedToSampler ==
  \A j \in Jobs :
    LET jr == job[j]
        d == video[jr.bugId]
        f == getFrameCount(d)
        floors == {(Start20(d) * (f - 1) + i * (End20(d) - Start20(d)))
                      \div (20 * (f - 1)) : i \in 0..(f - 1)}
    IN (jr.pc = "extracting" \/ jr.sampled) /\ d > 0 /\ jr.dur # FallbackDuration =>
         /\ jr.count = f
         /\ {jr.times[k] : k \in 1..Len(jr.times)} = floors
         /\ \A k, l \in 1..Len(jr.times) : k # l => jr.times[k] # jr.times[l]
         /\ Len(jr.times) >= 1
         /\ jr.sampled /\ jr.raw # <<>> => jr.toSend # <<>>

(* C14: for every duration d > 0 the timestamps of the frames the Sampler   *)
(* returns are strictly increasing and each lies inside the usable window   *)
(* [min(1, 0.05 d), max(d - 1, 0.95 d)] (compared in twentieths of a        *)
(* second).                                                                 *)
C14_TimestampsInsideWindow ==
  \A j \in Jobs :
    LET jr == job[j]
        d == video[jr.bugId]
    IN jr.sampled /\ d > 0 =>
         /\ \A k \in 1..(Len(jr.raw) - 1) :
               jr.raw[k].timestamp < jr.raw[k + 1].timestamp
         /\ \A k \in 1..Len(jr.raw) :
               /\ Start20(d) <= 20 * jr.raw[k].timestamp
               /\ 20 * jr.raw[k].timestamp <= End20(d)

(* a finished call of the Duplicate & Freeze Filter *)
Filtered == fn.op = "filter" /\ fn.applied
(* the place of a retained frame in the input *)
PosIn(frames, f) == CHOOSE i \in 1..Len(frames) : frames[i].path = f.path

(* C15: for any input frames and similarity outcomes the filter's output    *)
(* begins with the first input frame, is a subsequence of the input in the  *)
(* same order and has at most as many frames as the input.                  *)
C15_FilterKeepsFirstInOrder ==
  Filtered =>
    LET in == fn.frames
        out == fn.out.unique
    IN /\ Len(out) <= Len(in)
       /\ in # <<>> => out # <<>> /\ out[1].path = in[1].path
       /\ \A k \in 1..Len(out) :
             \E i \in 1..Len(in) :
               in[i].path = out[k].path /\ in[i].timestamp = out[k].timestamp
       /\ \A k \in 1..(Len(out) - 1) : PosIn(in, out[k]) < PosIn(in, out[k + 1])

(* a call that dropped frames and retained others after the first *)
C15_Witness ==
  /\ Filtered
  /\ Len(fn.frames) >= 4
  /\ Len(fn.out.unique) > 1
  /\ Len(fn.out.unique) < Len(fn.frames)

(* C16: whenever more than 2 consecutive input frames are discarded between *)
(* two retained frames A and B, A.frozenDuration is the difference between  *)
(* the timestamp of the last discarded frame and A.timestamp (timestamps    *)
(* are whole seconds, so rounding changes nothing).                         *)
C16_FreezeBetweenRetained ==
  Filtered =>
    LET in == fn.frames
        out == fn.out.unique
    IN \A k \in 1..(Len(out) - 1) :
         LET p == PosIn(in, out[k])
             q == PosIn(in, out[k + 1])
         IN q - p - 1 > 2 =>
              out[k].frozenDuration = in[q - 1].timestamp - in[p].timestamp

(* a call in which three frames were dropped between two retained ones *)
C16_Witness ==
  /\ Filtered
  /\ \E k \in 1..(Len(fn.out.unique) - 1) :
       PosIn(fn.frames, fn.out.unique[k + 1]) - PosIn(fn.frames, fn.out.unique[k]) > 3

(* C17: when the input ends while a run of more than 2 duplicates is open,  *)
(* the final retained frame gets the freeze duration from its timestamp to  *)
(* the last duplicate's.                                                    *)
C17_FreezeAtEndOfInput ==
  Filtered /\ fn.frames # <<>> =>
    LET in == fn.frames
        out == fn.out.unique
        p == PosIn(in, Last(out))
    IN Len(in) - p > 2 =>
         Last(out).frozenDuration = Last(in).timestamp - Last(out).timestamp

(* a finished call of the Volume Capper *)
Capped == fn.op = "cap" /\ fn.applied

C19_AtLeastThreeFrames ==
  \A j \in Jobs :
    job[j].sampled /\ Len(job[j].raw) >= 3 =>
      Len(job[j].toSend) >= 3

(* a finished call of the Report Partitioner *)
Partitioned == fn.op = "split" /\ fn.applied

(* C20: for raw text with the delimiter exactly once, the public report and *)
(* the internal context are the text before and after the delimiter without *)
(* the surrounding whitespace; for raw text without the delimiter the       *)
(* internal context is empty and the public report is the whole text        *)
(* trimmed.                                                                 *)
C20_PartitionReassembles ==
  Partitioned =>
    LET t == fn.analysis
        at == {k \in 1..Len(t) : t[k] = DELIM}
    IN /\ Cardinality(at) = 1 =>
            \E k \in at :
              /\ fn.out.publicReport = Trim(SubSeq(t, 1, k - 1))
              /\ fn.out.adminContext = Trim(SubSeq(t, k + 1, Len(t)))
       /\ at = {} =>
            /\ fn.out.adminContext = <<>>
            /\ fn.out.publicReport = Trim(t)

(* ------------------------------------------------------------------------ *)
(* C21: in every job the argument of the duplicate filter holds no frame    *)
(* that was labeled black_screen or nearly_black, and it holds every frame  *)
(* labeled white_screen or normal (and, in the analyzers that label         *)
(* nothing, every frame), in the order of the timestamps.                   *)
PathSeq(frames) == [k \in 1..Len(frames) |-> frames[k].path]

C21_BlackFramesLeaveFilterInput ==
  \A j \in Jobs :
    job[j].sampled =>
      /\ \A k \in 1..Len(job[j].filterIn) : ~IsBlack(job[j].filterIn[k])
      /\ PathSeq(job[j].filterIn) = PathSeq(SelectSeq(job[j].raw, NotBlack))
      /\ \A k \in 2..Len(job[j].filterIn) :
           job[j].filterIn[k - 1].timestamp < job[j].filterIn[k].timestamp

(* a part_007 job that sampled a black frame, then a white one, then a      *)
(* normal one: the filter got the last two *)
C21_Witness ==
  \E j \in Jobs :
    /\ job[j].sampled
    /\ Len(job[j].raw) = 3
    /\ job[j].raw[1].type = "nearly_black"
    /\ job[j].raw[2].type = "white_screen"
    /\ job[j].raw[3].type = "normal"
    /\ Len(job[j].filterIn) = 2

(* ------------------------------------------------------------------------ *)
(* C22: the frame budget of a duration d >= 0 is 10, 15, 25, 35, 45, 60 or  *)
(* 80 according to the interval of d between the marks 30, 60, 120, 180,    *)
(* 300 and 600 seconds, it is 80 for every d >= 600, and no shorter         *)
(* duration has a larger budget.                                            *)
Budgeted == fn.op = "budget" /\ fn.applied

C22_BudgetStepsUpToEighty ==
  Budgeted =>
    LET d == fn.dur
        f == fn.out
    IN /\ d < 30 => f = 10
       /\ 30 <= d /\ d < 60 => f = 15
       /\ 60 <= d /\ d < 120 => f = 25
       /\ 120 <= d /\ d < 180 => f = 35
       /\ 180 <= d /\ d < 300 => f = 45
       /\ 300 <= d /\ d < 600 => f = 60
       /\ d >= 600 => f = 80
       /\ \A e \in 0..d : getFrameCount(e) <= f

(* the budget of a recording of exactly ten minutes *)
C22_Witness == Budgeted /\ fn.dur = 600 /\ fn.out = 80

(* ------------------------------------------------------------------------ *)
(* C23: in a call of the filter every frame after the first is judged by    *)
(* its comparison with the frame retained last before it and by nothing     *)
(* else: it is retained if and only if that similarity is strictly below    *)
(* the threshold, a comparison that cannot read a file counts as 0 and so   *)
(* retains the frame, and the similarity to any other retained frame plays  *)
(* no part.                                                                 *)
Retained(k) == \E l \in 1..Len(fn.out.unique) : fn.out.unique[l].path = fn.frames[k].path
LatestRetainedBefore(k) ==
  CHOOSE l \in 1..(k - 1) : Retained(l) /\ \A m \in (l + 1)..(k - 1) : ~Retained(m)
Score(a, b) == IF a \in fn.lost \/ b \in fn.lost THEN 0 ELSE fn.sims[<<a, b>>]

C24_EverythingAfterFirstDelimiter ==
  Partitioned =>
    LET t == fn.analysis
        at == {k \in 1..Len(t) : t[k] = DELIM}
    IN at # {} =>
         LET k == CHOOSE n \in at : \A m \in at : n <= m
         IN /\ fn.out.publicReport = Trim(SubSeq(t, 1, k - 1))
            /\ fn.out.adminContext = Trim(SubSeq(t, k + 1, Len(t)))

(* ------------------------------------------------------------------------ *)
(* C25: when a job of the cloud analyzers has returned, the frame records   *)
(* of its bug are, after a multimodal success, exactly the frames handed to *)
(* inference, numbered 1..n by ascending timestamp, each with its timestamp *)
(* and freeze duration; after a failure or a text-only run there is no      *)
(* frame record.                                                            *)
FrameRecords(b) == SelectSeq(ai_frames, LAMBDA r : r.bug_id = b)

C25_RecordsAreTheFramesSent ==
  \A j \in Jobs :
    Done(j) /\ impl # "part_007" =>
      LET rows == FrameRecords(job[j].bugId)
          sent == job[j].toSend
      IN /\ job[j].result.success /\ ~job[j].textOnly =>
              /\ Len(rows) = Len(sent)
              /\ \A k \in 1..Len(rows) :
                   /\ rows[k].frame_number = k
                   /\ rows[k].timestamp_seconds = sent[k].timestamp
                   /\ rows[k].frozen_duration = sent[k].frozenDuration
              /\ \A k \in 2..Len(rows) :
                   rows[k - 1].timestamp_seconds < rows[k].timestamp_seconds
         /\ ~job[j].result.success \/ job[j].textOnly => rows = <<>>

(* ------------------------------------------------------------------------ *)
(* C26: every started job eventually ends, as long as each of its external  *)
(* calls eventually responds or errors; a download that is answered with    *)
(* 301 or 302 again and again does not keep the job running forever. (The   *)
(* ways of ending counted here include the rejected promise and the ended   *)
(* process besides the returned result.)                                    *)
Ended(j) == job[j].pc \in {"returned", "rejected", "crashed"}

C26_EveryJobEnds == \A j \in Jobs : (job[j].pc # "idle") ~> Ended(j)

(* ------------------------------------------------------------------------ *)
(* C27: for any interleaving of bug submissions, analyze requests and jobs, *)
(* once the record of a bug holds a non-empty analysis no later step        *)
(* changes that record: no job overwrites a stored analysis, so at most one *)
(* job per bug ever writes one.                                             *)
C27_StoredAnalysisIsFinal ==
  [][\A b \in BugIds : Truthy(bugs[b].ai_analysis) => bugs'[b] = bugs[b]]_vars

(* ------------------------------------------------------------------------ *)
(* C28: for any input frames the number of freezes a job reports, both the  *)
(* filter's own counter and the figure that goes into the prompt, is the    *)
(* number of retained frames on which the filter set a frozenDuration; a    *)
(* run of more than 2 duplicates still open at the end of the input counts  *)
(* on both sides.                                                           *)
MarkedFrozen(unique) ==
  Cardinality({k \in 1..Len(unique) : unique[k].frozenDuration # NoFreeze})

C28_FreezeCountIsMarkedFrames ==
  Filtered =>
    /\ fn.out.freezes = MarkedFrozen(fn.out.unique)
    /\ fn.out.reported = MarkedFrozen(fn.out.unique)

(* ------------------------------------------------------------------------ *)
(* C29: the public report stored for a raw text is the one stored for every *)
(* raw text that differs from it only after the first delimiter, and it     *)
(* never holds the delimiter; the text after the delimiter goes to the      *)
(* column ai_admin_context alone, and the company view of the bug record    *)
(* shows the public report and not that column.                             *)
BeforeDelimiter(t) ==
  IF Includes(t, DELIM)
  THEN SubSeq(t, 1, (CHOOSE n \in 1..Len(t) : t[n] = DELIM /\ \A m \in 1..(n - 1) : t[m] # DELIM) - 1)
  ELSE t

C30_NoBlackFrameSent ==
  \A j \in Jobs :
    job[j].sampled => \A k \in 1..Len(job[j].toSend) : ~IsBlack(job[j].toSend[k])

====
